---- MODULE Spec2Model ----
(***************************************************************************)
(* Model of pygeoapi_prefect/schemas.py: the pydantic (v1) models of the   *)
(* OGC API - Processes documents.  The module declares data classes only;  *)
(* what it does is decided by how pydantic validates a raw document        *)
(* against the declared field types, so the operators below are the        *)
(* validation of each declared type, in the order pydantic applies it.     *)
(*                                                                         *)
(* JSON values are tagged tuples:                                          *)
(*   <<"null">>  <<"bool", b>>  <<"int", n>>  <<"flt", h>>  <<"str", s>>   *)
(*   <<"list", seq>>  <<"obj", f>>                                         *)
(* A float is kept in halves (h = 3 is 1.5, h = 4 is 2.0), which is enough *)
(* to tell an integral number from a non-integral one and to truncate.     *)
(* An object is a function from its keys to values; where the order of the *)
(* keys matters (Python iterates a dict in insertion order) the keys are   *)
(* taken in the order of KeyOrder.                                         *)
(***************************************************************************)
EXTENDS Integers, Sequences, FiniteSets, TLC

\* model:  the class a document is validated against
\* raw:    the document handed to it
\* pc:     "raw" before the class is instantiated, "done" after
\* result: the instance built, or Fail when validation raised
VARIABLES pc, model, raw, result

vars == <<pc, model, raw, result>>

-----------------------------------------------------------------------------
(* JSON values and validation outcomes *)

Null == <<"null">>
Absent == <<"absent">>
Fail == <<"fail">>

B(b) == <<"bool", b>>
I(n) == <<"int", n>>
F(h) == <<"flt", h>>
S(s) == <<"str", s>>
L(seq) == <<"list", seq>>
O(f) == <<"obj", f>>

Kind(v) == v[1]

Get(f, k) == IF k \in DOMAIN f THEN f[k] ELSE Absent

KeyOrder ==
  <<"bbox", "crs", "value", "href", "format", "format_", "__root__", "foo",
    "mediaType", "encoding", "schema", "type", "rel", "title", "hreflang">>

KeyRank(k) == CHOOSE i \in 1..Len(KeyOrder) : KeyOrder[i] = k

FirstKey(f) == CHOOSE k \in DOMAIN f : \A j \in DOMAIN f : KeyRank(k) <= KeyRank(j)

LastKey(f) == CHOOSE k \in DOMAIN f : \A j \in DOMAIN f : KeyRank(j) <= KeyRank(k)

-----------------------------------------------------------------------------
(* pydantic's validators of the scalar types the fields are declared with *)

DigitStrings == {ToString(n) : n \in 0..9}

IntOfStr(s) == CHOOSE n \in 0..9 : ToString(n) = s

BOOL_TRUE == {"1", "on", "t", "true", "y", "yes"}
BOOL_FALSE == {"0", "off", "f", "false", "n", "no"}

Trunc(h) == IF h >= 0 THEN h \div 2 ELSE -((-h) \div 2)

\* float(v): a bool or an int widens, a numeric string parses
float_validator(v) ==
  CASE Kind(v) = "flt" -> v
    [] Kind(v) = "int" -> F(2 * v[2])
    [] Kind(v) = "bool" -> F(IF v[2] THEN 2 ELSE 0)
    [] Kind(v) = "str" -> IF v[2] \in DigitStrings THEN F(2 * IntOfStr(v[2])) ELSE Fail
    [] OTHER -> Fail

\* int(v): a bool becomes 0/1, a float is truncated, a numeric string parses
int_validator(v) ==
  CASE Kind(v) = "int" -> v
    [] Kind(v) = "bool" -> I(IF v[2] THEN 1 ELSE 0)
    [] Kind(v) = "flt" -> I(Trunc(v[2]))
    [] Kind(v) = "str" -> IF v[2] \in DigitStrings THEN I(IntOfStr(v[2])) ELSE Fail
    [] OTHER -> Fail

\* str(v) of a number (a bool is an int to Python)
str_validator(v) ==
  CASE Kind(v) = "str" -> v
    [] Kind(v) = "int" -> S(ToString(v[2]))
    [] Kind(v) = "bool" -> S(IF v[2] THEN "True" ELSE "False")
    [] Kind(v) = "flt" ->
         S(ToString(Trunc(v[2])) \o (IF v[2] % 2 = 0 THEN ".0" ELSE ".5"))
    [] OTHER -> Fail

bool_validator(v) ==
  CASE Kind(v) = "bool" -> v
    [] Kind(v) = "str" ->
         IF v[2] \in BOOL_TRUE THEN B(TRUE)
         ELSE IF v[2] \in BOOL_FALSE THEN B(FALSE) ELSE Fail
    [] Kind(v) = "int" ->
         IF v[2] = 1 THEN B(TRUE) ELSE IF v[2] = 0 THEN B(FALSE) ELSE Fail
    [] Kind(v) = "flt" ->
         IF v[2] = 2 THEN B(TRUE) ELSE IF v[2] = 0 THEN B(FALSE) ELSE Fail
    [] OTHER -> Fail

\* the first alternative of a Union that validates (pydantic tries the
\* members left to right and keeps the first that raises no error)
FirstValid(alternatives) ==
  IF \A i \in DOMAIN alternatives : alternatives[i] = Fail THEN Fail
  ELSE alternatives[CHOOSE i \in DOMAIN alternatives :
                      /\ alternatives[i] # Fail
                      /\ \A j \in 1..(i - 1) : alternatives[j] = Fail]

\* Optional[T] = None: an absent key and null both give None
Optional(v, validated) == IF v \in {Absent, Null} THEN Null ELSE validated

\* T = default: an absent key gives the default, null is not allowed
Defaulted(v, default, validated) ==
  IF v = Absent THEN default ELSE IF v = Null THEN Fail ELSE validated

\* Optional[T] = default: an absent key gives the default, null gives None
OptionalDefaulted(v, default, validated) ==
  IF v = Absent THEN default ELSE IF v = Null THEN Null ELSE validated

\* C8, mutant: a field with no default that is taken as None when missing
RequiredOrNone(v, validated) == IF v \in {Absent, Null} THEN Null ELSE validated

\* T with no default: the key must be there and must not be null
Required(v, validated) == IF v \in {Absent, Null} THEN Fail ELSE validated

OptionalStr(f, k) == Optional(Get(f, k), str_validator(Get(f, k)))

\* a field whose type is an enum class: the value must be one of its tokens
EnumValue(v, tokens) ==
  IF Kind(v) = "str" /\ v[2] \in tokens THEN v ELSE Fail

-----------------------------------------------------------------------------
(* BaseModel.validate: the argument a model class is built from *)

\* one element of a sequence handed to dict(): a 2-element list is a
\* (key, value) pair, an object with two keys iterates to its two keys
PairOf(e) ==
  IF Kind(e) = "list" /\ Len(e[2]) = 2 THEN <<e[2][1], e[2][2]>>
  ELSE IF Kind(e) = "obj" /\ Cardinality(DOMAIN e[2]) = 2
       THEN <<S(FirstKey(e[2])), S(LastKey(e[2]))>>
  ELSE Fail

\* cls(**dict(pairs)): every element a pair, every key a string, a later pair
\* with the same key wins
KeywordArgs(pairs) ==
  IF \E i \in DOMAIN pairs : pairs[i] = Fail \/ Kind(pairs[i][1]) # "str"
  THEN Fail
  ELSE O([k \in {pairs[i][1][2] : i \in DOMAIN pairs} |->
            pairs[CHOOSE i \in DOMAIN pairs :
                    /\ pairs[i][1][2] = k
                    /\ \A j \in DOMAIN pairs : pairs[j][1][2] = k => j <= i][2]])

\* the keyword arguments of cls(**value), or Fail (DictError / TypeError)
ModelArgs(v) ==
  CASE Kind(v) = "obj" -> v
    [] Kind(v) = "list" -> KeywordArgs([i \in DOMAIN v[2] |-> PairOf(v[2][i])])
    [] OTHER -> Fail

\* the keyword arguments as a mapping (empty when there are none)
Kwargs(v) == IF ModelArgs(v) = Fail THEN <<>> ELSE ModelArgs(v)[2]

\* a model instance: its class and the value of every field, or Fail when a
\* field did not validate
Instance(class, fields) ==
  IF \E k \in DOMAIN fields : fields[k] = Fail THEN Fail ELSE <<class, fields>>

\* cls.validate(v): fields are the fields validated from Kwargs(v)
Validate(class, v, fields) ==
  IF ModelArgs(v) = Fail THEN Fail ELSE Instance(class, fields)

\* a model with a custom __root__ takes the value itself, unless the value is
\* an object whose only key is __root__
RootArg(v) ==
  IF Kind(v) = "obj" /\ DOMAIN v[2] = {"__root__"} THEN v[2]["__root__"] ELSE v

\* the positions of a sequence (none when the value is no sequence)
Indices(v) == IF Kind(v) = "list" THEN DOMAIN v[2] ELSE {}

\* a container of validated members, or Fail when a member did not validate
AllValid(class, members) ==
  IF \E i \in DOMAIN members : members[i] = Fail THEN Fail ELSE <<class, members>>

\* List[T]: items are the elements of v validated as T, by position
ListOf(v, items) == IF Kind(v) # "list" THEN Fail ELSE AllValid("List", items)

\* Dict[str, T]: values are the values of Kwargs(v) validated as T, by key
DictOf(v, values) == IF ModelArgs(v) = Fail THEN Fail ELSE AllValid("Dict", values)

\* a field declared `dict`: dict(v), whose keys need only be hashable; the
\* result is kept as the value it was built from
HashablePairs(v, pairs) ==
  IF \E i \in DOMAIN pairs : pairs[i] = Fail \/ Kind(pairs[i][1]) \in {"list", "obj"}
  THEN Fail ELSE <<"dict", v>>

dict_validator(v) ==
  CASE Kind(v) = "obj" -> <<"dict", v>>
    [] Kind(v) = "list" -> HashablePairs(v, [i \in DOMAIN v[2] |-> PairOf(v[2][i])])
    [] OTHER -> Fail

-----------------------------------------------------------------------------
(* Link and the execution input values *)

LinkFields(f) ==
  [href |-> Required(Get(f, "href"), str_validator(Get(f, "href"))),
   type_ |-> OptionalStr(f, "type"),
   rel |-> OptionalStr(f, "rel"),
   title |-> OptionalStr(f, "title"),
   href_lang |-> OptionalStr(f, "hreflang")]

Link(v) == Validate("Link", v, LinkFields(Kwargs(v)))

CRS84 == "http://www.opengis.net/def/crs/OGC/1.3/CRS84"

\* list[float] with min_items = max_items = 4
FourFloats(v) ==
  IF Kind(v) # "list" THEN Fail
  ELSE IF Len(v[2]) # 4 THEN Fail
  ELSE ListOf(v, [i \in Indices(v) |-> float_validator(v[2][i])])

\* C1, mutant: a bounding box whose crs defaults to None
ExecutionInputBBoxFieldsNoDefault(f) ==
  [bbox |-> FourFloats(Get(f, "bbox")),
   crs |-> Optional(Get(f, "crs"), str_validator(Get(f, "crs")))]

ExecutionInputBBoxFields(f) ==
  [bbox |-> FourFloats(Get(f, "bbox")),
   crs |-> OptionalDefaulted(Get(f, "crs"), S(CRS84), str_validator(Get(f, "crs")))]

ExecutionInputBBox(v) ==
  Validate("ExecutionInputBBox", v, ExecutionInputBBoxFields(Kwargs(v)))

RECURSIVE ExecutionInputValueNoObjectArray(_)

\* Union[ExecutionInputBBox, int, str, ExecutionInputValueNoObjectArray],
\* tried left to right (the array model sets no smart_union)
ArrayItem(e) ==
  IF e = Null THEN Fail
  ELSE FirstValid(<<ExecutionInputBBox(e), int_validator(e), str_validator(e),
                    ExecutionInputValueNoObjectArray(e)>>)

ArrayOf(r) ==
  IF Kind(r) # "list" THEN Fail
  ELSE AllValid("ExecutionInputValueNoObjectArray",
                [i \in Indices(r) |-> ArrayItem(r[2][i])])

ExecutionInputValueNoObjectArray(v) == ArrayOf(RootArg(v))

\* the root union of ExecutionInputValueNoObject under smart_union: a value
\* whose class is exactly bool, float, int or str is taken as it is; any
\* other value is tried against the members left to right
NoObjectRoot(r) ==
  IF r = Null THEN Fail
  ELSE IF Kind(r) \in {"bool", "flt", "int", "str"} THEN r
  ELSE FirstValid(<<ExecutionInputBBox(r), bool_validator(r), float_validator(r),
                    int_validator(r), ExecutionInputValueNoObjectArray(r),
                    str_validator(r)>>)

Rooted(class, root) == IF root = Fail THEN Fail ELSE <<class, root>>

ExecutionInputValueNoObject(v) ==
  Rooted("ExecutionInputValueNoObject", NoObjectRoot(RootArg(v)))

\* schema_: Optional[Union[str, dict]]
FormatSchema(v) == Optional(v, FirstValid(<<str_validator(v), dict_validator(v)>>))

ExecutionFormatFields(f) ==
  [media_type |-> OptionalStr(f, "mediaType"),
   encoding |-> OptionalStr(f, "encoding"),
   schema_ |-> FormatSchema(Get(f, "schema"))]

ExecutionFormat(v) == Validate("ExecutionFormat", v, ExecutionFormatFields(Kwargs(v)))

\* value: Union[ExecutionInputValueNoObject, dict]
QualifiedValue(v) ==
  Required(v, FirstValid(<<ExecutionInputValueNoObject(v), dict_validator(v)>>))

\* format_ declares no alias, so it is read from the key "format_"
ExecutionQualifiedInputValueFields(f) ==
  [value |-> QualifiedValue(Get(f, "value")),
   format_ |-> Optional(Get(f, "format_"), ExecutionFormat(Get(f, "format_")))]

ExecutionQualifiedInputValue(v) ==
  Validate("ExecutionQualifiedInputValue", v, ExecutionQualifiedInputValueFields(Kwargs(v)))

\* Union[ExecutionInputValueNoObject, ExecutionQualifiedInputValue, Link],
\* the element type of the list member of Execution.inputs
InputListItem(v) ==
  IF v = Null THEN Fail
  ELSE FirstValid(<<ExecutionInputValueNoObject(v), ExecutionQualifiedInputValue(v),
                    Link(v)>>)

InputList(v) == ListOf(v, [i \in Indices(v) |-> InputListItem(v[2][i])])

\* the value type of Execution.inputs: Union[ExecutionInputValueNoObject,
\* ExecutionQualifiedInputValue, Link, List[Union[...]]], tried left to right
ExecutionInput(v) ==
  IF v = Null THEN Fail
  ELSE FirstValid(<<ExecutionInputValueNoObject(v), ExecutionQualifiedInputValue(v),
                    Link(v), InputList(v)>>)

ProcessOutputTransmissionMode == {"value", "reference"}

ProcessResponseType == {"document", "raw"}

TransmissionMode(v) == EnumValue(v, ProcessOutputTransmissionMode)

ExecutionOutputFields(f) ==
  [format_ |-> Optional(Get(f, "format"), ExecutionFormat(Get(f, "format"))),
   transmission_mode |->
     OptionalDefaulted(Get(f, "transmissionMode"), S("value"),
                       TransmissionMode(Get(f, "transmissionMode")))]

ExecutionOutput(v) == Validate("ExecutionOutput", v, ExecutionOutputFields(Kwargs(v)))

ExecutionSubscriberFields(f) ==
  [success_uri |-> Required(Get(f, "successUri"), str_validator(Get(f, "successUri"))),
   in_progress_uri |-> OptionalStr(f, "inProgressUri"),
   failed_uri |-> OptionalStr(f, "failedUri")]

ExecutionSubscriber(v) ==
  Validate("ExecutionSubscriber", v, ExecutionSubscriberFields(Kwargs(v)))

ExecutionInputs(v) ==
  DictOf(v, [k \in DOMAIN Kwargs(v) |-> ExecutionInput(Kwargs(v)[k])])

ExecutionOutputs(v) ==
  DictOf(v, [k \in DOMAIN Kwargs(v) |-> ExecutionOutput(Kwargs(v)[k])])

ExecutionFields(f) ==
  [inputs |-> Optional(Get(f, "inputs"), ExecutionInputs(Get(f, "inputs"))),
   outputs |-> Optional(Get(f, "outputs"), ExecutionOutputs(Get(f, "outputs"))),
   response |-> OptionalDefaulted(Get(f, "response"), S("raw"),
                                  EnumValue(Get(f, "response"), ProcessResponseType)),
   subscriber |-> Optional(Get(f, "subscriber"),
                           ExecutionSubscriber(Get(f, "subscriber")))]

Execution(doc) == Validate("Execution", doc, ExecutionFields(Kwargs(doc)))

-----------------------------------------------------------------------------
(* ProcessIOSchema *)

ProcessIOType == {"array", "boolean", "integer", "number", "object", "string"}

ProcessIOFormat ==
  {"date-time", "date", "time", "duration", "email", "hostname", "ipv4", "ipv6",
   "uri", "uri-reference", "uuid", "uri-template", "json-pointer",
   "relative-json-pointer", "regex", "binary",
   "http://www.opengis.net/def/format/ogcapi-processes/0/geojson-feature-collection",
   "http://www.opengis.net/def/format/ogcapi-processes/0/geojson-feature",
   "http://www.opengis.net/def/format/ogcapi-processes/0/geojson-geometry",
   "http://www.opengis.net/def/format/ogcapi-processes/0/ogc-bbox",
   "geojson-feature-collection", "geojson-feature", "geojson-geometry", "ogc-bbox"}

\* field name |-> the key it is read from (its alias, or the name itself)
Alias ==
  [title |-> "title", multiple_of |-> "multipleOf", maximum |-> "maximum",
   exclusive_maximum |-> "exclusiveMaximum", minimum |-> "minimum",
   exclusive_minimum |-> "exclusiveMinimum", max_length |-> "maxLength",
   min_length |-> "minLength", pattern |-> "pattern", max_items |-> "maxItems",
   min_items |-> "minItems", unique_items |-> "uniqueItems",
   max_properties |-> "maxProperties", min_properties |-> "minProperties",
   required |-> "required", enum |-> "enum", type_ |-> "type", not_ |-> "not",
   allOf |-> "allOf", oneOf |-> "oneOf", anyOf |-> "anyOf", items |-> "items",
   properties |-> "properties", additional_properties |-> "additionalProperties",
   description |-> "description", format_ |-> "format", default |-> "default",
   nullable |-> "nullable", read_only |-> "readOnly", write_only |-> "writeOnly",
   example |-> "example", deprecated |-> "deprecated",
   content_media_type |-> "contentMediaType",
   content_encoding |-> "contentEncoding", content_schema |-> "contentSchema"]

\* field name |-> its declared type
FieldType ==
  [title |-> "str?", multiple_of |-> "float?", maximum |-> "float?",
   exclusive_maximum |-> "bool", minimum |-> "float?",
   exclusive_minimum |-> "bool", max_length |-> "int>=0?",
   min_length |-> "int>=0", pattern |-> "str?", max_items |-> "int>=0?",
   min_items |-> "int>=0", unique_items |-> "bool",
   max_properties |-> "int>=0?", min_properties |-> "int>=0",
   required |-> "conlist(str,1,unique)?", enum |-> "conlist(Any,1)?",
   type_ |-> "ProcessIOType?", not_ |-> "ProcessIOSchema?",
   allOf |-> "list[ProcessIOSchema]?", oneOf |-> "list[ProcessIOSchema]?",
   anyOf |-> "list[ProcessIOSchema]?", items |-> "list[ProcessIOSchema]?",
   properties |-> "ProcessIOSchema?",
   additional_properties |-> "bool|ProcessIOSchema",
   description |-> "str?", format_ |-> "ProcessIOFormat?", default |-> "Json[dict]?",
   nullable |-> "bool", read_only |-> "bool", write_only |-> "bool",
   example |-> "Json[dict]?", deprecated |-> "bool",
   content_media_type |-> "str?", content_encoding |-> "str?",
   content_schema |-> "str?"]

FieldNames == DOMAIN Alias

\* the value of a field whose key is absent from the document
Default(n) ==
  CASE FieldType[n] = "bool" -> B(FALSE)
    [] FieldType[n] = "int>=0" -> I(0)
    [] FieldType[n] = "bool|ProcessIOSchema" -> B(TRUE)
    [] OTHER -> Null

\* Python's == on two raw JSON values: numbers compare by value
PyEq(a, b) ==
  IF Kind(a) \in {"bool", "int", "flt"} /\ Kind(b) \in {"bool", "int", "flt"}
  THEN float_validator(a) = float_validator(b)
  ELSE a = b

\* C4, mutant: a list whose items are never compared
NoRepeats(items) == FALSE

\* some two elements of a raw list are equal
Repeats(items) == \E i, j \in DOMAIN items : i < j /\ PyEq(items[i], items[j])

\* conlist(item_type, min_items=1, unique_items=unique): the length and the
\* uniqueness are checked on the raw list, then every item is validated
ConList(v, items, unique) ==
  IF Kind(v) # "list" THEN Fail
  ELSE IF Len(v[2]) < 1 THEN Fail
  ELSE IF unique /\ Repeats(v[2]) THEN Fail
  ELSE ListOf(v, items)

RequiredItem(e) == IF e = Null THEN Fail ELSE str_validator(e)

EnumItem(e) == e

\* the ge=0 constraint on a validated int
AtLeastZero(int) ==
  IF int = Fail THEN Fail ELSE IF int[2] >= 0 THEN int ELSE Fail

NonNegativeInt(v) == AtLeastZero(int_validator(v))

\* json.loads of the strings that occur in the documents
JsonLoads(s) ==
  CASE s = "{\"a\": 1}" -> O([a |-> I(1)])
    [] s \in DigitStrings -> I(IntOfStr(s))
    [] OTHER -> Fail

Decoded(value) == IF value = Fail THEN Fail ELSE dict_validator(value)

\* Json[dict]: the value is a JSON text, decoded and then validated as dict
JsonDict(v) == IF Kind(v) # "str" THEN Fail ELSE Decoded(JsonLoads(v[2]))

RECURSIVE ProcessIOSchema(_)

\* the validation of the value v given for a field of declared type t
Typed(t, v) ==
  CASE t = "str?" -> str_validator(v)
    [] t = "float?" -> float_validator(v)
    [] t = "bool" -> bool_validator(v)
    [] t \in {"int>=0", "int>=0?"} -> NonNegativeInt(v)
    [] t = "conlist(str,1,unique)?" -> ConList(v, [i \in Indices(v) |-> RequiredItem(v[2][i])], TRUE)
    [] t = "conlist(Any,1)?" -> ConList(v, [i \in Indices(v) |-> EnumItem(v[2][i])], FALSE)
    [] t = "ProcessIOType?" -> EnumValue(v, ProcessIOType)
    [] t = "ProcessIOFormat?" -> EnumValue(v, ProcessIOFormat)
    [] t = "ProcessIOSchema?" -> ProcessIOSchema(v)
    [] t = "list[ProcessIOSchema]?" -> ListOf(v, [i \in Indices(v) |-> ProcessIOSchema(v[2][i])])
    [] t = "bool|ProcessIOSchema" -> FirstValid(<<bool_validator(v), ProcessIOSchema(v)>>)
    [] t = "Json[dict]?" -> JsonDict(v)

NotOptional == {"bool", "int>=0", "bool|ProcessIOSchema"}

\* the value of field n when the document gives v for it
SchemaField(n, v) ==
  IF v = Absent THEN Default(n)
  ELSE IF v = Null THEN (IF FieldType[n] \in NotOptional THEN Fail ELSE Null)
  ELSE Typed(FieldType[n], v)

ProcessIOSchemaFields(f) == [n \in FieldNames |-> SchemaField(n, Get(f, Alias[n]))]

\* pydantic's __fields_set__: the fields the document gave a value for
FieldsSet(instance, args) ==
  IF instance = Fail THEN Fail
  ELSE <<instance[1], instance[2], {n \in FieldNames : Alias[n] \in DOMAIN args[2]}>>

\* a model is the value of every field and the set of the fields that the
\* document gave; keys that name no field are ignored
ProcessIOSchema(doc) ==
  FieldsSet(Validate("ProcessIOSchema", doc, ProcessIOSchemaFields(Kwargs(doc))),
            ModelArgs(doc))

-----------------------------------------------------------------------------
(* Process *)

ProcessJobControlOption == {"sync-execute", "async-execute", "dismiss"}

JobControlOptionItem(e) == EnumValue(e, ProcessJobControlOption)

StrList(v) == ListOf(v, [i \in Indices(v) |-> str_validator(v[2][i])])

StrDict(v) == DictOf(v, [k \in DOMAIN Kwargs(v) |-> str_validator(Kwargs(v)[k])])

ProcessMetadataFields(f) ==
  [title |-> OptionalStr(f, "title"),
   role |-> OptionalStr(f, "role"),
   href |-> OptionalStr(f, "href")]

ProcessMetadata(v) == Validate("ProcessMetadata", v, ProcessMetadataFields(Kwargs(v)))

MetadataList(v) == ListOf(v, [i \in Indices(v) |-> ProcessMetadata(v[2][i])])

DictList(v) == ListOf(v, [i \in Indices(v) |-> dict_validator(v[2][i])])

\* one item of AdditionalProcessIOParameters.value:
\* str | float | int | list[dict] | dict, tried left to right
ParameterValueItem(e) ==
  IF e = Null THEN Fail
  ELSE FirstValid(<<str_validator(e), float_validator(e), int_validator(e),
                    DictList(e), dict_validator(e)>>)

ParameterValues(v) == ListOf(v, [i \in Indices(v) |-> ParameterValueItem(v[2][i])])

AdditionalProcessIOParametersFields(f) ==
  [title |-> OptionalStr(f, "title"),
   role |-> OptionalStr(f, "role"),
   href |-> OptionalStr(f, "href"),
   name |-> Required(Get(f, "name"), str_validator(Get(f, "name"))),
   value |-> Required(Get(f, "value"), ParameterValues(Get(f, "value")))]

AdditionalProcessIOParameters(v) ==
  Validate("AdditionalProcessIOParameters", v, AdditionalProcessIOParametersFields(Kwargs(v)))

ProcessOutputFields(f) ==
  [title |-> OptionalStr(f, "title"),
   description |-> OptionalStr(f, "description"),
   schema_ |-> Required(Get(f, "schema"), ProcessIOSchema(Get(f, "schema")))]

ProcessOutput(v) == Validate("ProcessOutput", v, ProcessOutputFields(Kwargs(v)))

\* max_occurs: int | Literal["unbounded"], the int tried first
MaxOccurs(v) ==
  FirstValid(<<int_validator(v), IF v = S("unbounded") THEN v ELSE Fail>>)

ProcessInputFields(f) ==
  [title |-> OptionalStr(f, "title"),
   description |-> OptionalStr(f, "description"),
   schema_ |-> Required(Get(f, "schema"), ProcessIOSchema(Get(f, "schema"))),
   keywords |-> Optional(Get(f, "keywords"), StrList(Get(f, "keywords"))),
   metadata |-> Optional(Get(f, "metadata"), MetadataList(Get(f, "metadata"))),
   min_occurs |-> Defaulted(Get(f, "minOccurs"), I(1), int_validator(Get(f, "minOccurs"))),
   max_occurs |-> Defaulted(Get(f, "maxOccurs"), I(1), MaxOccurs(Get(f, "maxOccurs"))),
   additional_parameters |->
     Optional(Get(f, "additional_parameters"),
              AdditionalProcessIOParameters(Get(f, "additional_parameters")))]

ProcessInput(v) == Validate("ProcessInput", v, ProcessInputFields(Kwargs(v)))

JobControlOptions(v) ==
  ListOf(v, [i \in Indices(v) |-> JobControlOptionItem(v[2][i])])

OutputTransmission(v) == ListOf(v, [i \in Indices(v) |-> TransmissionMode(v[2][i])])

LinkList(v) == ListOf(v, [i \in Indices(v) |-> Link(v[2][i])])

ProcessInputs(v) == DictOf(v, [k \in DOMAIN Kwargs(v) |-> ProcessInput(Kwargs(v)[k])])

ProcessOutputs(v) == DictOf(v, [k \in DOMAIN Kwargs(v) |-> ProcessOutput(Kwargs(v)[k])])

ProcessFields(f) ==
  [title |-> Required(Get(f, "title"), StrDict(Get(f, "title"))),
   description |-> Required(Get(f, "description"), StrDict(Get(f, "description"))),
   keywords |-> Required(Get(f, "keywords"), StrList(Get(f, "keywords"))),
   version |-> Required(Get(f, "version"), str_validator(Get(f, "version"))),
   id |-> Required(Get(f, "id"), str_validator(Get(f, "id"))),
   job_control_options |->
     Required(Get(f, "jobControlOptions"),
              JobControlOptions(Get(f, "jobControlOptions"))),
   output_transmission |->
     Defaulted(Get(f, "outputTransmission"), <<"List", <<S("value")>>>>,
               OutputTransmission(Get(f, "outputTransmission"))),
   links |-> Required(Get(f, "links"), LinkList(Get(f, "links"))),
   inputs |-> Required(Get(f, "inputs"), ProcessInputs(Get(f, "inputs"))),
   outputs |-> Required(Get(f, "outputs"), ProcessOutputs(Get(f, "outputs"))),
   example |-> Optional(Get(f, "example"), dict_validator(Get(f, "example")))]

Process(doc) == Validate("Process", doc, ProcessFields(Kwargs(doc)))

\* BaseModel.dict(by_alias=True, exclude_unset=True) of a ProcessIOSchema: the
\* fields the document gave, under their aliases; a nested model is dumped
\* the same way, a container member by member
RECURSIVE Serialize(_)

Dump(value) ==
  CASE value[1] = "ProcessIOSchema" -> Serialize(value)
    [] value[1] = "List" -> L([i \in DOMAIN value[2] |-> Serialize(value[2][i])])
    [] value[1] = "dict" -> value[2]
    [] OTHER -> value

Serialize(node) ==
  CASE node[1] = "ProcessIOSchema" ->
         O([k \in {Alias[n] : n \in node[3]} |->
              Dump(node[2][CHOOSE n \in node[3] : Alias[n] = k])])
    [] OTHER -> Dump(node)

-----------------------------------------------------------------------------
(* The documents the models are instantiated from *)

MaxLen == 2
MaxDepth == 2
MaxBound == 2
MaxNesting == 2

SeqsUpTo(set, n) == UNION {[1..k -> set] : k \in 0..n}

\* the object holding the keys of f that are given
Strip(f) == O([k \in {j \in DOMAIN f : f[j] # Absent} |-> f[k]])

Box4 == L(<<I(0), I(0), I(1), I(1)>>)
Box4Float == L(<<F(-3), F(3), I(2), I(0)>>)
Box4Mixed == L(<<F(-3), F(3), I(2), S("7")>>)
Box3 == L(<<I(0), I(0), I(1)>>)
Box4Text == L(<<I(0), I(0), I(1), S("a")>>)

TextPlain == O([mediaType |-> S("text/plain")])

Url == S("https://example.org/data.json")

ObjectInputs ==
  {Strip([bbox |-> b, crs |-> c, value |-> v, href |-> h, __root__ |-> r, foo |-> x]) :
     b \in {Absent, Box4, Box4Float, Box4Mixed, Box3, Box4Text},
     c \in {Absent, Null, S("EPSG:4326"), I(1), L(<<>>)},
     v \in {Absent, Null, I(42), S("a"), O([foo |-> I(1)]), L(<<I(1)>>), L(<<Null>>)},
     h \in {Absent, Url, L(<<>>)},
     r \in {Absent, I(1)},
     x \in {Absent, I(1)}}

QualifiedInputs ==
  {Strip([value |-> v, href |-> h, format |-> f, format_ |-> g]) :
     v \in {Absent, I(42), S("a")},
     h \in {Absent, Url},
     f \in {Absent, TextPlain},
     g \in {Absent, TextPlain, I(1)}}

ScalarInputs == {Null, B(TRUE), B(FALSE), I(1), F(3), F(4), S("a"), S("7")}

Elements ==
  {Null, B(TRUE), I(1), F(3), S("a"), S("7"),
   O([bbox |-> Box4]), O([value |-> I(42)]), O([href |-> Url]), O([foo |-> I(1)]),
   O([value |-> I(42), href |-> Url]),
   L(<<S("bbox"), Box4>>), L(<<S("href"), S("a")>>)}

FlatLists == {L(s) : s \in SeqsUpTo(Elements, MaxLen)}

Leaves == {B(TRUE), I(1), F(3), S("a")}

LeafLists == {L(s) : s \in SeqsUpTo(Leaves, MaxLen)}

RECURSIVE NestedLists(_)
NestedLists(d) ==
  IF d = 0 THEN LeafLists
  ELSE LeafLists \cup {L(<<x>>) : x \in NestedLists(d - 1)}
                 \cup {L(<<S("a"), x>>) : x \in NestedLists(d - 1)}

RawInputs ==
  ScalarInputs \cup ObjectInputs \cup QualifiedInputs \cup FlatLists
  \cup NestedLists(MaxDepth)

ExecutionDocs ==
  {O([inputs |-> O([x |-> v])]) : v \in RawInputs}
  \cup {Strip([inputs |-> i, outputs |-> o, response |-> r, subscriber |-> s]) :
          i \in {Absent, Null, O(<<>>), I(1)},
          o \in {Absent, O([y |-> O([format |-> TextPlain])]),
                 O([y |-> O([transmissionMode |-> S("bogus")])])},
          r \in {Absent, Null, S("document"), S("bogus")},
          s \in {Absent, O([successUri |-> S("a")]), O([failedUri |-> S("a")])}}

MinOptions == {Absent} \cup {I(n) : n \in -1..MaxBound}
MaxOptions == MinOptions \cup {Null}

PairDocs(min, max) == {Strip(min :> a @@ max :> b) : a \in MinOptions, b \in MaxOptions}

RangeDocs ==
  PairDocs("minLength", "maxLength") \cup PairDocs("minItems", "maxItems")
  \cup PairDocs("minProperties", "maxProperties")
  \cup {Strip([minLength |-> a, maxLength |-> b, minItems |-> c, maxItems |-> d,
               minProperties |-> e, maxProperties |-> f]) :
          a \in {Absent, I(2)}, b \in {Absent, I(1)}, c \in {Absent, I(2)},
          d \in {Absent, I(1)}, e \in {Absent, I(2)}, f \in {Absent, I(1)}}

ListDocs ==
  {Strip([required |-> r, enum |-> e]) :
     r \in {Absent, Null, S("a"), L(<<>>), L(<<S("a")>>), L(<<S("a"), S("b")>>),
            L(<<S("a"), S("a")>>), L(<<I(1), S("1")>>)},
     e \in {Absent, Null, L(<<>>), L(<<I(1)>>), L(<<I(1), I(1)>>), L(<<Null>>),
            L(<<S("a"), L(<<>>)>>)}}

MiscDocs ==
  {Strip([title |-> t, default |-> d, exclusiveMinimum |-> x]) :
     t \in {Absent, S("a"), I(1)},
     d \in {Absent, S("{\"a\": 1}"), S("a"), O([a |-> I(1)])},
     x \in {Absent, B(TRUE), B(FALSE), S("yes")}}
  \cup {Strip([type |-> t, format |-> f, multipleOf |-> m, minLength |-> n, foo |-> x]) :
          t \in {Absent, Null, S("string"), S("bogus")},
          f \in {Absent, S("date-time"), S("bogus")},
          m \in {Absent, F(3), S("a")},
          n \in {Absent, S("7"), F(3)},
          x \in {Absent, I(1)}}

LeafDocs == RangeDocs \cup ListDocs \cup MiscDocs

\* the documents holding a document of set under a composition keyword
Compositions(set) ==
  {O(k :> d) : k \in {"not", "properties", "additionalProperties"}, d \in set}
  \cup {O(k :> L(<<d>>)) : k \in {"allOf", "oneOf", "anyOf", "items"}, d \in set}
  \cup {O([properties |-> O([name |-> d])]) : d \in set}

Wrappings(set) ==
  {O([not |-> d]) : d \in set}
  \cup {O([allOf |-> L(<<O([title |-> S("a")]), d>>)]) : d \in set}

RECURSIVE NestedDocs(_)
NestedDocs(n) ==
  IF n = 1 THEN Compositions(RangeDocs \cup ListDocs)
  ELSE Wrappings(NestedDocs(n - 1))

SchemaDocs ==
  LeafDocs
  \cup UNION {NestedDocs(n) : n \in 1..MaxNesting}
  \cup {O([additionalProperties |-> b]) : b \in {B(FALSE), B(TRUE), Null}}

JobControlOptionLists ==
  {L(s) : s \in SeqsUpTo({S("sync-execute"), S("async-execute"), S("dismiss"),
                          S("bogus")}, MaxLen)}

StringSchema == O([type |-> S("string")])

English == O([en |-> S("a")])

ProcessDocs ==
  {Strip([title |-> t, description |-> English, keywords |-> L(<<S("a")>>),
          version |-> v, id |-> i, jobControlOptions |-> j, outputTransmission |-> o,
          links |-> L(<<O([href |-> S("a")])>>),
          inputs |-> O([x |-> O([schema |-> StringSchema,
                                 maxOccurs |-> S("unbounded")])]),
          outputs |-> O([y |-> O([schema |-> StringSchema])])]) :
     t \in {Absent, English},
     v \in {Absent, S("1.0.0"), L(<<>>)},
     i \in {Absent, S("a")},
     j \in {Absent, Null} \cup JobControlOptionLists,
     o \in {Absent, L(<<S("reference")>>)}}
  \cup
  {Strip([title |-> English, description |-> d, keywords |-> k,
          version |-> S("1.0.0"), id |-> S("a"),
          jobControlOptions |-> L(<<S("sync-execute")>>),
          links |-> l, inputs |-> p, outputs |-> q, example |-> e]) :
     d \in {Absent, English},
     k \in {Absent, L(<<S("a")>>)},
     l \in {Absent, L(<<O([href |-> S("a")])>>)},
     p \in {Absent, O([x |-> O([schema |-> StringSchema])])},
     q \in {Absent, O([y |-> O([schema |-> StringSchema])])},
     e \in {Absent, O([a |-> I(1)])}}

-----------------------------------------------------------------------------
(* Instantiating a model from a document *)

Init ==
  /\ pc = "raw"
  /\ result = Null
  /\ \/ model = "Execution" /\ raw \in ExecutionDocs
     \/ model = "ProcessIOSchema" /\ raw \in SchemaDocs
     \/ model = "Process" /\ raw \in ProcessDocs

ParseExecution ==
  /\ pc = "raw"
  /\ model = "Execution"
  /\ result' = Execution(raw)
  /\ pc' = "done"
  /\ UNCHANGED <<model, raw>>

ParseProcessIOSchema ==
  /\ pc = "raw"
  /\ model = "ProcessIOSchema"
  /\ result' = ProcessIOSchema(raw)
  /\ pc' = "done"
  /\ UNCHANGED <<model, raw>>

ParseProcess ==
  /\ pc = "raw"
  /\ model = "Process"
  /\ result' = Process(raw)
  /\ pc' = "done"
  /\ UNCHANGED <<model, raw>>

Next == ParseExecution \/ ParseProcessIOSchema \/ ParseProcess

Spec == Init /\ [][Next]_vars

-----------------------------------------------------------------------------
(* What the properties below speak of *)

Done == pc = "done"

Accepted == Done /\ result # Fail

\* the execution request gives a value for the input named x
InputGiven ==
  /\ Done
  /\ model = "Execution"
  /\ Kind(Get(raw[2], "inputs")) = "obj"
  /\ "x" \in DOMAIN raw[2]["inputs"][2]

\* the raw value of input x, and what it was resolved to
Input == raw[2]["inputs"][2]["x"]

Resolved == IF result = Fail THEN Fail ELSE result[2]["inputs"][2]["x"]

ObjectGiven == InputGiven /\ Kind(Input) = "obj"

SequenceGiven == InputGiven /\ Kind(Input) = "list"

IsNumber(v) == Kind(v) \in {"int", "flt"}

IsScalar(v) == Kind(v) \in {"bool", "int", "flt", "str"}

FourNumbers(b) ==
  Kind(b) = "list" /\ Len(b[2]) = 4 /\ \A i \in 1..4 : IsNumber(b[2][i])

\* the variants of a resolved input value
IsBBox(r) == r[1] = "ExecutionInputValueNoObject" /\ r[2][1] = "ExecutionInputBBox"

IsArray(r) ==
  r[1] = "ExecutionInputValueNoObject" /\ r[2][1] = "ExecutionInputValueNoObjectArray"

IsQualifiedValue(r) == r[1] = "ExecutionQualifiedInputValue"

DefaultCrs(r) == r[2][2].crs = S(CRS84)

SchemaParsed == Done /\ model = "ProcessIOSchema"

ProcessParsed == Done /\ model = "Process"

-----------------------------------------------------------------------------
(* C1 *)

\* C1, as stated: an input object whose bbox is a sequence of exactly 4
\* numbers always resolves to the BBox variant, whatever other keys it has,
\* and the BBox has the CRS84 crs when the object has no crs key.
C1_BBoxAlways ==
  (ObjectGiven /\ FourNumbers(Get(Input[2], "bbox")))
    => /\ IsBBox(Resolved)
       /\ ("crs" \notin DOMAIN Input[2] => DefaultCrs(Resolved))

\* C1, amended: an input object whose bbox is a sequence of exactly 4 numbers
\* and whose crs, when given, is null, a string or a number, resolves to the
\* BBox variant, also when it carries a value or an href key; the BBox has
\* the CRS84 crs when the object has no crs key.
C1_BBoxWhenCrsValid ==
  (/\ ObjectGiven
   /\ FourNumbers(Get(Input[2], "bbox"))
   /\ Kind(Get(Input[2], "crs")) \in {"absent", "null", "str", "int", "flt"})
    => /\ IsBBox(Resolved)
       /\ ("crs" \notin DOMAIN Input[2] => DefaultCrs(Resolved))

\* C1, witness: an object with a 4-number bbox, a value and an href but no
\* crs has been resolved to a BBox with the CRS84 crs.
C1_Witness ==
  /\ ObjectGiven
  /\ FourNumbers(Get(Input[2], "bbox"))
  /\ {"value", "href"} \subseteq DOMAIN Input[2]
  /\ "crs" \notin DOMAIN Input[2]
  /\ IsBBox(Resolved)
  /\ DefaultCrs(Resolved)

-----------------------------------------------------------------------------
(* C2 *)

C2_Example == O([value |-> I(42), format |-> TextPlain])

C2_Expected ==
  <<"ExecutionQualifiedInputValue",
    [value |-> <<"ExecutionInputValueNoObject", I(42)>>,
     format_ |-> <<"ExecutionFormat",
                   [media_type |-> S("text/plain"), encoding |-> Null,
                    schema_ |-> Null]>>]>>

\* C2: an input object resolved as a QualifiedValue has no format only when
\* it has no format key, and {"value": 42, "format": {"mediaType":
\* "text/plain"}} resolves to the QualifiedValue of Scalar(42) whose format
\* has the media type text/plain.
C2_FormatCarried ==
  (ObjectGiven /\ IsQualifiedValue(Resolved))
    => /\ Resolved[2].format_ = Null => "format" \notin DOMAIN Input[2]
       /\ Input = C2_Example => Resolved = C2_Expected

-----------------------------------------------------------------------------
(* Nesting levels of a schema *)

Range(seq) == {seq[i] : i \in DOMAIN seq}

SingleKeywords == {"not", "properties", "additionalProperties"}

ListKeywords == {"allOf", "oneOf", "anyOf", "items"}

\* the schema documents nested directly in the document d
NestedIn(d) ==
  {c \in {d[2][k] : k \in SingleKeywords \cap DOMAIN d[2]}
          \cup UNION {Range(d[2][k][2]) :
                        k \in {j \in ListKeywords \cap DOMAIN d[2] :
                                 Kind(d[2][j]) = "list"}} :
     Kind(c) = "obj"}

\* the document d and every schema document nested in it, at any level
RECURSIVE Fragments(_)
Fragments(d) == {d} \cup UNION {Fragments(c) : c \in NestedIn(d)}

\* the SchemaNodes nested directly in a SchemaNode
ChildNodes(node) ==
  {node[2][n] : n \in {j \in {"not_", "properties", "additional_properties"} :
                         node[2][j][1] = "ProcessIOSchema"}}
  \cup UNION {Range(node[2][n][2]) :
                n \in {j \in {"allOf", "oneOf", "anyOf", "items"} :
                         node[2][j][1] = "List"}}

\* a SchemaNode and every SchemaNode nested in it, at any level
RECURSIVE Nodes(_)
Nodes(node) == {node} \cup UNION {Nodes(c) : c \in ChildNodes(node)}

-----------------------------------------------------------------------------
(* C3 *)

\* min <= max for one pair of a SchemaNode whose max is present
Ordered(values, min, max) ==
  values[max] = Null \/ values[min][2] <= values[max][2]

\* C3: every SchemaNode that parsing accepts has, at every nesting level,
\* min_length <= max_length, min_items <= max_items and min_properties <=
\* max_properties whenever the maximum is present (a fragment with min > max
\* is rejected).
C3_MinNeverExceedsMax ==
  (SchemaParsed /\ Accepted)
    => \A n \in Nodes(result) :
         /\ Ordered(n[2], "min_length", "max_length")
         /\ Ordered(n[2], "min_items", "max_items")
         /\ Ordered(n[2], "min_properties", "max_properties")

-----------------------------------------------------------------------------
(* C4 *)

IsEmptyList(v) == Kind(v) = "list" /\ Len(v[2]) = 0

HasRepeatedName(v) ==
  Kind(v) = "list" /\ \E i, j \in DOMAIN v[2] : i < j /\ v[2][i] = v[2][j]

\* C4: no accepted SchemaNode has, at any nesting level, an empty enum or an
\* empty required; a document holding at any nesting level a fragment whose
\* enum or required is an empty sequence, or whose required repeats a name,
\* is rejected; a document that is only an enum with duplicate values is
\* accepted with the duplicates kept.
C4_NonEmptyEnumAndRequired ==
  SchemaParsed
    => /\ Accepted =>
            \A n \in Nodes(result) :
              /\ n[2].enum = Null \/ Len(n[2].enum[2]) > 0
              /\ n[2].required = Null \/ Len(n[2].required[2]) > 0
       /\ (\E d \in Fragments(raw) :
             \/ IsEmptyList(Get(d[2], "enum"))
             \/ IsEmptyList(Get(d[2], "required"))
             \/ HasRepeatedName(Get(d[2], "required")))
            => result = Fail
       /\ raw = O([enum |-> L(<<I(1), I(1)>>)])
            => Accepted /\ result[2].enum = <<"List", <<I(1), I(1)>>>>

\* C4, witness: a document whose nested fragment repeats a name in required
\* has been rejected.
C4_Witness ==
  /\ SchemaParsed
  /\ \E d \in Fragments(raw) : d # raw /\ HasRepeatedName(Get(d[2], "required"))
  /\ result = Fail

-----------------------------------------------------------------------------
(* C5 *)

\* C5: serializing the SchemaNode parsed from an accepted schema document
\* gives the document back: the same keys with the same values.
C5_RoundTrip == (SchemaParsed /\ Accepted) => Serialize(result) = raw

-----------------------------------------------------------------------------
(* C6 *)

\* C6: an input object with no valid bbox, no value key and no href key is
\* never accepted, and an input object with a value key and an href key and
\* no valid bbox resolves to the QualifiedValue variant, not to Link.
C6_OneVariantOrFailure ==
  (ObjectGiven /\ ExecutionInputBBox(Input) = Fail)
    => /\ DOMAIN Input[2] \cap {"value", "href"} = {} => Resolved = Fail
       /\ {"value", "href"} \subseteq DOMAIN Input[2] => IsQualifiedValue(Resolved)

-----------------------------------------------------------------------------
(* C7 *)

\* a sequence nested to any depth whose leaves are scalars
RECURSIVE ScalarLeaves(_)
ScalarLeaves(v) ==
  \/ IsScalar(v)
  \/ Kind(v) = "list" /\ \A i \in DOMAIN v[2] : ScalarLeaves(v[2][i])

\* the Array a has the shape, the order and the leaf values of the sequence v
RECURSIVE SameArray(_, _)
SameArray(v, a) ==
  IF Kind(v) = "list"
  THEN /\ a[1] = "ExecutionInputValueNoObjectArray"
       /\ Len(a[2]) = Len(v[2])
       /\ \A i \in DOMAIN v[2] : SameArray(v[2][i], a[2][i])
  ELSE a = v

\* C7: a sequence whose elements are sequences nested to any depth, with
\* scalar leaves, resolves to the Array of the same nesting shape, element
\* order and leaf values.
C7_NestedArrayKept ==
  (SequenceGiven /\ ScalarLeaves(Input))
    => IsArray(Resolved) /\ SameArray(Input, Resolved[2])

-----------------------------------------------------------------------------
(* C8 *)

MandatoryKeys ==
  {"title", "description", "keywords", "version", "id", "jobControlOptions",
   "links", "inputs", "outputs"}

IsToken(v) == Kind(v) = "str" /\ v[2] \in {"sync-execute", "async-execute", "dismiss"}

\* every mandatory field of the document is given, with a string version and
\* id and with a non-empty sequence of job control tokens (the other fields
\* of the documents are valid wherever they are given)
MandatoryValid ==
  /\ MandatoryKeys \subseteq DOMAIN raw[2]
  /\ Kind(raw[2]["version"]) = "str"
  /\ Kind(raw[2]["id"]) = "str"
  /\ Kind(raw[2]["jobControlOptions"]) = "list"
  /\ Len(raw[2]["jobControlOptions"][2]) > 0
  /\ \A i \in DOMAIN raw[2]["jobControlOptions"][2] :
       IsToken(raw[2]["jobControlOptions"][2][i])

\* C8: a process document without id, version or jobControlOptions is
\* rejected; a process document whose mandatory fields are all given and
\* valid is accepted.
C8_MandatoryFields ==
  ProcessParsed
    => /\ {"id", "version", "jobControlOptions"} \ DOMAIN raw[2] # {} => result = Fail
       /\ MandatoryValid => result # Fail

\* C8, witness: a process document giving everything but its id has been
\* rejected.
C8_Witness ==
  /\ ProcessParsed
  /\ DOMAIN raw[2] = (MandatoryKeys \ {"id"}) \cup {"outputTransmission"}
  /\ result = Fail

-----------------------------------------------------------------------------
(* C9 *)

\* C9: the job_control_options of every accepted process description is a
\* non-empty sequence of tokens among sync-execute, async-execute and dismiss.
C9_NonEmptyJobControlOptions ==
  (ProcessParsed /\ Accepted)
    => /\ Len(result[2].job_control_options[2]) > 0
       /\ \A i \in DOMAIN result[2].job_control_options[2] :
            IsToken(result[2].job_control_options[2][i])

-----------------------------------------------------------------------------
(* C10 *)

\* C10: an input given as a sequence, when accepted, resolves to the sequence
\* of its elements, each resolved on its own and in the same order, never to
\* the single Array variant.
C10_OuterSequenceKept ==
  (SequenceGiven /\ Resolved # Fail)
    => /\ Resolved[1] = "List"
       /\ Len(Resolved[2]) = Len(Input[2])
       /\ \A i \in DOMAIN Input[2] : Resolved[2][i] = InputListItem(Input[2][i])

====
